---- MODULE Spec2Model ----
(***************************************************************************)
(* Model of the response-parsing layer of ts-caldav:                       *)
(*   parseCalendars  (src/src/utils/parser.ts, src/unnamed/part_000)       *)
(*   parseEvents     ical.js back-end   (src/src/utils/parser.ts)          *)
(*   parseEvents     node-ical back-end (src/unnamed/part_000)             *)
(* and of the change detector of spec section 4.4, whose result type is    *)
(* declared in src/unnamed/part_001.                                       *)
(*                                                                         *)
(* A call is one action: the inputs are drawn from bounded sets, the whole *)
(* function body is evaluated and the outcome (returned value or raised    *)
(* exception) is stored next to the inputs. The history variable slots     *)
(* records, for each response record the loop got through, what that       *)
(* iteration pushed onto the output.                                       *)
(*                                                                         *)
(* JavaScript values are encoded as follows.                               *)
(*   - a string-or-undefined value is a string, Undefined standing for     *)
(*     the value undefined;                                                *)
(*   - an XML child that may be missing, single or repeated is a record    *)
(*     [kind, items] with kind "undefined", "object" (bare singleton, one  *)
(*     item) or "array" (two or more items), which is what fast-xml-parser *)
(*     produces;                                                           *)
(*   - a Date is its epoch milliseconds and an iCalendar time its epoch     *)
(*     seconds, NoDate standing for null or undefined.                     *)
(***************************************************************************)
EXTENDS Integers, Sequences, FiniteSets, TLC

VARIABLES pc, op, backend, baseUrl, doc, snapshot, status, result, slots, changes

vars == <<pc, op, backend, baseUrl, doc, snapshot, status, result, slots, changes>>

----------------------------------------------------------------------------
(* Bounds of the model *)

MaxRecords == 2

MaxAlarms == 2

MaxAttendees == 2

MaxRefs == 2

MaxComps == 2

----------------------------------------------------------------------------
(* JavaScript value encoding *)

Undefined == "<undefined>"

NoDate == -1

JsUndefined == [kind |-> "undefined", items |-> <<>>]

IsJsUndefined(v) == "kind" \in DOMAIN v /\ v.kind = "undefined"

JsObject(x) == [kind |-> "object", items |-> <<x>>]

JsArray(s) == [kind |-> "array", items |-> s]

\* What the XML decoder yields for n sibling elements of one name.
JsChildren(s) ==
  IF Len(s) = 0 THEN JsUndefined
  ELSE IF Len(s) = 1 THEN JsObject(s[1])
  ELSE JsArray(s)

SeqsUpTo(S, n) == UNION {[1..k -> S] : k \in 0..n}

----------------------------------------------------------------------------
(* URL resolution: new URL(href, baseUrl).toString() *)

AbsoluteUrls == {"https://dav.example.com/dav/", "https://other.example.org/c.ics"}

Origin(url) ==
  IF url = "https://dav.example.com/dav/" THEN "https://dav.example.com"
  ELSE "https://other.example.org"

\* Path-absolute references, resolved against the origin of the base.
RelativeRefs == {"/cal/a.ics", "/cal/b.ics", "/cal/"}

\* new URL(href, base): throws a TypeError when the base does not parse, or
\* when href is neither an absolute URL nor a reference the base resolves.
NewURL(href, base) ==
  IF base \notin AbsoluteUrls THEN [threw |-> TRUE, url |-> Undefined]
  ELSE IF href \in AbsoluteUrls THEN [threw |-> FALSE, url |-> href]
  ELSE IF href \in RelativeRefs THEN [threw |-> FALSE, url |-> Origin(base) \o href]
  ELSE [threw |-> TRUE, url |-> Undefined]

\* baseUrl ? new URL(href, baseUrl).toString() : href
resolveHref(href, base) ==
  IF base # Undefined /\ base # ""
  THEN NewURL(href, base)
  ELSE [threw |-> FALSE, url |-> href]

----------------------------------------------------------------------------
(* parseCalendars *)

\* The component names the filter of parseCalendars lets through.
FilterComponents ==
  {"VEVENT", "VTODO", "VJOURNAL", "VFREEBUSY", "VTIMEZONE", "VAVAILABILITY"}

\* The declared type SupportedComponent of the models.
SupportedComponent == {"VEVENT", "VTODO", "VJOURNAL", "VFREEBUSY", "VTIMEZONE"}

ToLowerCase(w) ==
  CASE w = "OK" -> "ok"
    [] w = "Ok" -> "ok"
    [] w = "Not" -> "not"
    [] w = "Found" -> "found"
    [] w = "HTTP/1.1" -> "http/1.1"
    [] OTHER -> w

\* A status text is the sequence of its space-separated words.
\* s.toLowerCase().includes("200 ok")
Includes200Ok(words) ==
  \E i \in 1..(Len(words) - 1) :
    ToLowerCase(words[i]) = "200" /\ ToLowerCase(words[i + 1]) = "ok"

\* typeof p["status"] === "string" && p["status"].toLowerCase().includes("200 ok")
IsOkPropstat(p) == p.status.isString /\ Includes200Ok(p.status.words)

\* Array.isArray(res["propstat"]) ? res["propstat"] : [res["propstat"]]
\* The single element of the wrapped list is undefined when the record has no
\* propstat; it is kept as the encoded value.
propstatsOf(res) ==
  IF res.propstat.kind = "array" THEN res.propstat.items
  ELSE IF res.propstat.kind = "object" THEN res.propstat.items
  ELSE <<JsUndefined>>

\* propstats.find(callback): reading p["status"] of the undefined element
\* throws a TypeError; otherwise the first matching propstat, if any.
RECURSIVE findOkPropstat(_, _)
findOkPropstat(propstats, i) ==
  IF i > Len(propstats) THEN [threw |-> FALSE, found |-> <<>>]
  ELSE IF IsJsUndefined(propstats[i]) THEN [threw |-> TRUE, found |-> <<>>]
  ELSE IF IsOkPropstat(propstats[i]) THEN [threw |-> FALSE, found |-> <<propstats[i]>>]
  ELSE findOkPropstat(propstats, i + 1)

\* Array.isArray(compData) ? compData : compData ? [compData] : []
compArrayOf(prop) ==
  IF prop.kind = "undefined" THEN <<>>
  ELSE LET compData == prop.items[1].comp
       IN IF compData.kind = "undefined" THEN <<>> ELSE compData.items

RECURSIVE filterComponents(_)
filterComponents(comps) ==
  IF comps = <<>> THEN <<>>
  ELSE IF Head(comps).name \in FilterComponents
       THEN <<Head(comps).name>> \o filterComponents(Tail(comps))
       ELSE filterComponents(Tail(comps))

SeqToSet(s) == {s[i] : i \in 1..Len(s)}

\* The body of the for loop of parseCalendars for one response record.
calendarOf(res, base) ==
  LET ok == findOkPropstat(propstatsOf(res), 1)
  IN IF ok.threw THEN [threw |-> TRUE, out |-> <<>>]
     ELSE IF ok.found = <<>> THEN [threw |-> FALSE, out |-> <<>>]
     ELSE LET prop == ok.found[1].prop
              supportedComponents == filterComponents(compArrayOf(prop))
              url == resolveHref(res.href, base)
          IN IF "VEVENT" \notin SeqToSet(supportedComponents)
             THEN [threw |-> FALSE, out |-> <<>>]
             ELSE IF url.threw THEN [threw |-> TRUE, out |-> <<>>]
             ELSE [threw |-> FALSE,
                   out |-> <<[displayName |->
                                IF prop.items[1].displayname = Undefined THEN ""
                                ELSE prop.items[1].displayname,
                              url |-> url.url,
                              ctag |-> prop.items[1].getctag,
                              supportedComponents |-> supportedComponents]>>]

RECURSIVE calendarsLoop(_, _, _, _, _)
calendarsLoop(responses, base, i, calendars, done) ==
  IF i > Len(responses)
  THEN [status |-> "returned", value |-> calendars, slots |-> done]
  ELSE LET r == calendarOf(responses[i], base)
       IN IF r.threw THEN [status |-> "raised", value |-> <<>>, slots |-> done]
          ELSE calendarsLoop(responses, base, i + 1, calendars \o r.out,
                             Append(done, r.out))

\* jsonData["multistatus"]["response"]: a TypeError without the root element.
\* Without a response element the wrapped list holds undefined and the first
\* iteration throws on res["propstat"].
parseCalendars(d, base) ==
  IF ~d.multistatus THEN [status |-> "raised", value |-> <<>>, slots |-> <<>>]
  ELSE IF d.response.kind = "undefined"
  THEN [status |-> "raised", value |-> <<>>, slots |-> <<>>]
  ELSE calendarsLoop(d.response.items, base, 1, <<>>, <<>>)

----------------------------------------------------------------------------
(* parseEvents: what both back-ends share *)

Day == 86400000

\* JavaScript truthiness of a string-or-undefined value.
Truthy(s) == s # Undefined /\ s # ""

\* obj["propstat"]?.["prop"]: undefined when the record has no propstat, and
\* also when propstat is an array, which has no property "prop".
eventDataOf(obj) ==
  IF obj.propstat.kind = "object" THEN obj.propstat.items[1].prop
  ELSE JsUndefined

\* rawCalendarData.replace(/&#13;/g, "\r\n"): every entity-escaped line end
\* becomes a CRLF. A value that is no string has no method replace.
cleanCalendarData(raw) ==
  IF raw.type # "string" THEN [threw |-> TRUE, text |-> raw]
  ELSE [threw |-> FALSE, text |-> [raw EXCEPT !.lineEnd = "crlf"]]

\* The iCalendar parser of either back-end: it throws on text that is no
\* iCalendar document, which a document with unconverted line ends is.
icalParse(text) ==
  IF text.lineEnd = "crlf" /\ text.ics.wellFormed
  THEN [threw |-> FALSE, vevents |-> text.ics.vevents]
  ELSE [threw |-> TRUE, vevents |-> <<>>]

\* eventData["getetag"] || ""
etagOf(eventData) == IF Truthy(eventData.getetag) THEN eventData.getetag ELSE ""

----------------------------------------------------------------------------
(* parseEvents, ical.js back-end *)

\* A tzid parameter value is a sequence: empty for undefined, one element for
\* a string, more for an array. An array gives its first element.
normalizeParam(value) ==
  IF Len(value) > 1 THEN <<value[1]>> ELSE value

\* normalizeParam(...) || undefined
tzidOf(value) ==
  LET v == normalizeParam(value)
  IN IF v = <<>> \/ v = <<"">> THEN Undefined ELSE v[1]

FreqMap == {"DAILY", "WEEKLY", "MONTHLY", "YEARLY"}

parseRecurrence(recur) ==
  [freq |-> IF recur.freq \in FreqMap THEN recur.freq ELSE Undefined,
   interval |-> recur.interval,
   \* recur.count ? recur.count : undefined, undefined being the empty sequence
   count |-> IF recur.count # 0 THEN <<recur.count>> ELSE <<>>]

\* x?.toString() || undefined
orUndefined(s) == IF Truthy(s) THEN s ELSE Undefined

\* getAllProperties("attendee").map(getFirstValue).filter(typeof v === "string")
attendeesIcalJs(valarm) ==
  SelectSeq(valarm.attendees, LAMBDA v : v \in STRING)

\* alarmIcalJs with the AUDIO branch not testing the trigger.
alarmIcalJs_AudioUntested(valarm) ==
  LET action == valarm.action
      trigger == valarm.trigger
  IN IF action = "DISPLAY" /\ Truthy(trigger)
     THEN <<[action |-> "DISPLAY", trigger |-> trigger,
             description |-> orUndefined(valarm.description)]>>
     ELSE IF action = "EMAIL" /\ Truthy(trigger)
     THEN <<[action |-> "EMAIL", trigger |-> trigger,
             description |-> orUndefined(valarm.description),
             summary |-> orUndefined(valarm.summary),
             attendees |-> attendeesIcalJs(valarm)]>>
     ELSE IF action = "AUDIO"
     THEN <<[action |-> "AUDIO", trigger |-> trigger]>>
     ELSE <<>>

\* One iteration of the loop over the VALARMs: the alarm pushed, if any.
alarmIcalJs(valarm) ==
  LET action == valarm.action
      trigger == valarm.trigger
  IN IF action = "DISPLAY" /\ Truthy(trigger)
     THEN <<[action |-> "DISPLAY", trigger |-> trigger,
             description |-> orUndefined(valarm.description)]>>
     ELSE IF action = "EMAIL" /\ Truthy(trigger)
     THEN <<[action |-> "EMAIL", trigger |-> trigger,
             description |-> orUndefined(valarm.description),
             summary |-> orUndefined(valarm.summary),
             attendees |-> attendeesIcalJs(valarm)]>>
     ELSE IF action = "AUDIO" /\ Truthy(trigger)
     THEN <<[action |-> "AUDIO", trigger |-> trigger]>>
     ELSE <<>>

RECURSIVE alarmsIcalJs(_)
alarmsIcalJs(valarms) ==
  IF valarms = <<>> THEN <<>>
  ELSE alarmIcalJs(Head(valarms)) \o alarmsIcalJs(Tail(valarms))

\* icalEvent.startDate.toUnixTime(): the epoch seconds of DTSTART.
icalStartUnixTime(vevent) == vevent.dtstart

\* icalEvent.endDate.toUnixTime(). The endDate of ICAL.Event is DTEND; without
\* DTEND it is the start, moved to the next day when the start is a date.
icalEndUnixTime(vevent) ==
  IF vevent.dtend # NoDate THEN vevent.dtend
  ELSE IF vevent.dtstart = NoDate THEN NoDate
  ELSE IF vevent.isDate THEN vevent.dtstart + 24 * 60 * 60
  ELSE vevent.dtstart

\* isWholeDay ? new Date(endDate.getTime() - 86400000) : endDate
adjustedEnd(isWholeDay, endDate) ==
  IF isWholeDay THEN endDate - Day ELSE endDate

\* The try block of parseEvents for a record whose calendar-data is the
\* cleaned text: the event pushed, if any; threw is an exception the catch
\* clause swallows.
eventIcalJs(obj, eventData, cleaned, base) ==
  LET jcal == icalParse(cleaned)
  IN IF jcal.threw THEN [threw |-> TRUE, out |-> <<>>]
     ELSE IF jcal.vevents = <<>> THEN [threw |-> FALSE, out |-> <<>>]
     ELSE LET vevent == Head(jcal.vevents)
              href == resolveHref(obj.href, base)
          IN \* icalEvent.startDate is null without DTSTART: reading isDate throws
             IF icalStartUnixTime(vevent) = NoDate THEN [threw |-> TRUE, out |-> <<>>]
             ELSE IF href.threw THEN [threw |-> TRUE, out |-> <<>>]
             ELSE LET isWholeDay == vevent.isDate
                      startDate == icalStartUnixTime(vevent) * 1000
                      endDate == IF icalEndUnixTime(vevent) # NoDate
                                 THEN icalEndUnixTime(vevent) * 1000
                                 ELSE startDate
                  IN [threw |-> FALSE,
                      out |-> <<[uid |-> vevent.uid,
                                 summary |-> IF Truthy(vevent.summary) THEN vevent.summary
                                             ELSE "Untitled Event",
                                 start |-> startDate,
                                 end |-> adjustedEnd(isWholeDay, endDate),
                                 etag |-> etagOf(eventData),
                                 href |-> href.url,
                                 wholeDay |-> isWholeDay,
                                 recurrenceRule |->
                                   IF vevent.rrule = <<>> THEN <<>>
                                   ELSE <<parseRecurrence(vevent.rrule[1])>>,
                                 startTzid |-> tzidOf(vevent.startTzid),
                                 endTzid |-> tzidOf(vevent.endTzid),
                                 alarms |-> alarmsIcalJs(vevent.valarms)]>>]

----------------------------------------------------------------------------
(* parseEvents, node-ical back-end *)

RECURSIVE JoinComma(_)
JoinComma(s) ==
  IF Len(s) = 0 THEN ""
  ELSE IF Len(s) = 1 THEN s[1]
  ELSE s[1] \o "," \o JoinComma(Tail(s))

\* valarm.attendee ? [valarm.attendee.toString()] : []
\* node-ical keeps one ATTENDEE as its value and several as an array, whose
\* toString joins the values with commas.
attendeesNodeIcal(valarm) ==
  LET attendee == JsChildren(valarm.attendees)
  IN IF attendee.kind = "undefined" THEN <<>>
     ELSE IF attendee.kind = "object"
          THEN IF Truthy(attendee.items[1]) THEN <<attendee.items[1]>> ELSE <<>>
          ELSE <<JoinComma(attendee.items)>>

alarmNodeIcal(valarm) ==
  LET action == valarm.action
      trigger == valarm.trigger
  IN IF action = "DISPLAY" /\ Truthy(trigger)
     THEN <<[action |-> "DISPLAY", trigger |-> trigger,
             description |-> valarm.description]>>
     ELSE IF action = "EMAIL" /\ Truthy(trigger)
     THEN <<[action |-> "EMAIL", trigger |-> trigger,
             description |-> valarm.description,
             summary |-> valarm.summary,
             attendees |-> attendeesNodeIcal(valarm)]>>
     ELSE IF action = "AUDIO" /\ Truthy(trigger)
     THEN <<[action |-> "AUDIO", trigger |-> trigger]>>
     ELSE <<>>

RECURSIVE alarmsNodeIcal(_)
alarmsNodeIcal(valarms) ==
  IF valarms = <<>> THEN <<>>
  ELSE alarmNodeIcal(Head(valarms)) \o alarmsNodeIcal(Tail(valarms))

\* event.start: the Date node-ical builds from DTSTART.
nodeIcalStart(event) ==
  IF event.dtstart = NoDate THEN NoDate ELSE event.dtstart * 1000

\* event.end: the Date node-ical builds from DTEND; without DTEND it is a copy
\* of the start for a date-time and the day after the start for a date.
nodeIcalEnd(event) ==
  IF event.dtend # NoDate THEN event.dtend * 1000
  ELSE IF event.dtstart = NoDate THEN NoDate
  ELSE IF event.isDate THEN (event.dtstart + 24 * 60 * 60) * 1000
  ELSE event.dtstart * 1000

\* event.start.tz, event.end.tz: the tz the library attached to the Date.
tzNodeIcal(value) == IF value = <<>> THEN Undefined ELSE value[1]

\* The try block of parseEvents of the node-ical back-end.
eventNodeIcal(obj, eventData, cleaned, base) ==
  LET jcal == icalParse(cleaned)
  IN IF jcal.threw THEN [threw |-> TRUE, out |-> <<>>]
     ELSE IF jcal.vevents = <<>> THEN [threw |-> FALSE, out |-> <<>>]
     ELSE LET event == Head(jcal.vevents)
              href == resolveHref(obj.href, base)
          IN IF href.threw THEN [threw |-> TRUE, out |-> <<>>]
             \* event.start.tz and event.end.tz throw on an undefined Date
             ELSE IF nodeIcalStart(event) = NoDate \/ nodeIcalEnd(event) = NoDate
                  THEN [threw |-> TRUE, out |-> <<>>]
             ELSE [threw |-> FALSE,
                   out |-> <<[uid |-> event.uid,
                              summary |-> IF Truthy(event.summary) THEN event.summary
                                          ELSE "Untitled Event",
                              start |-> nodeIcalStart(event),
                              end |-> nodeIcalEnd(event),
                              etag |-> etagOf(eventData),
                              href |-> href.url,
                              wholeDay |-> event.isDate,
                              recurrenceRule |-> event.rrule,
                              startTzid |-> tzNodeIcal(event.startTzid),
                              endTzid |-> tzNodeIcal(event.endTzid),
                              alarms |-> alarmsNodeIcal(event.valarms)]>>]

----------------------------------------------------------------------------
(* parseEvents: the loop over the response records *)

\* The body of the for loop for one response record. raised is an exception
\* that leaves parseEvents; a swallowed exception only yields no event.
eventOf(be, obj, base) ==
  LET eventData == eventDataOf(obj)
  IN IF eventData.kind = "undefined" THEN [raised |-> FALSE, out |-> <<>>]
     ELSE LET rawCalendarData == eventData.items[1].calendarData
          IN IF rawCalendarData.type \in {"undefined", "empty"}
             THEN [raised |-> FALSE, out |-> <<>>]
             ELSE LET cleaned == cleanCalendarData(rawCalendarData)
                  IN IF cleaned.threw THEN [raised |-> TRUE, out |-> <<>>]
                     ELSE [raised |-> FALSE,
                           out |-> IF be = "ical.js"
                                   THEN eventIcalJs(obj, eventData.items[1],
                                                    cleaned.text, base).out
                                   ELSE eventNodeIcal(obj, eventData.items[1],
                                                      cleaned.text, base).out]

RECURSIVE eventsLoop(_, _, _, _, _, _)
eventsLoop(be, response, base, i, events, done) ==
  IF i > Len(response)
  THEN [status |-> "returned", value |-> events, slots |-> done]
  ELSE LET r == eventOf(be, response[i], base)
       IN IF r.raised THEN [status |-> "raised", value |-> <<>>, slots |-> done]
          ELSE eventsLoop(be, response, base, i + 1, events \o r.out,
                          Append(done, r.out))

\* if (!response) return events
responseOrEmpty(response) ==
  IF response.kind = "undefined" THEN [returns |-> TRUE, list |-> <<>>]
  ELSE [returns |-> FALSE, list |-> response.items]

\* parseEvents without the early return on a missing response: the wrapped
\* list then holds undefined and the first iteration throws.
parseEvents_NoEarlyReturn(be, d, base) ==
  IF ~d.multistatus THEN [status |-> "raised", value |-> <<>>, slots |-> <<>>]
  ELSE IF d.response.kind = "undefined"
  THEN [status |-> "raised", value |-> <<>>, slots |-> <<>>]
  ELSE eventsLoop(be, d.response.items, base, 1, <<>>, <<>>)

parseEvents(be, d, base) ==
  IF ~d.multistatus THEN [status |-> "raised", value |-> <<>>, slots |-> <<>>]
  ELSE LET response == responseOrEmpty(d.response)
       IN IF response.returns
          THEN [status |-> "returned", value |-> <<>>, slots |-> <<>>]
          ELSE eventsLoop(be, response.list, base, 1, <<>>, <<>>)

----------------------------------------------------------------------------
(* ChangeDetector (spec section 4.4) *)

RefHrefs(refs) == {refs[i].href : i \in 1..Len(refs)}

\* The etag the index by href holds for h.
IndexedEtag(refs, h) ==
  LET i == CHOOSE j \in 1..Len(refs) : refs[j].href = h IN refs[i].etag

\* Step 2, scan of currRefs: new when absent from the previous index, updated
\* when present with another etag.
RECURSIVE scanCurr(_, _, _, _, _)
scanCurr(prevRefs, currRefs, i, newEvents, updatedEvents) ==
  IF i > Len(currRefs) THEN [newEvents |-> newEvents, updatedEvents |-> updatedEvents]
  ELSE LET ref == currRefs[i]
       IN IF ref.href \notin RefHrefs(prevRefs)
          THEN scanCurr(prevRefs, currRefs, i + 1, Append(newEvents, ref.href), updatedEvents)
          ELSE IF IndexedEtag(prevRefs, ref.href) # ref.etag
          THEN scanCurr(prevRefs, currRefs, i + 1, newEvents, Append(updatedEvents, ref.href))
          ELSE scanCurr(prevRefs, currRefs, i + 1, newEvents, updatedEvents)

\* Step 2, scan of prevRefs: deleted when absent from the current index.
RECURSIVE scanPrev(_, _, _, _)
scanPrev(prevRefs, currRefs, i, deletedEvents) ==
  IF i > Len(prevRefs) THEN deletedEvents
  ELSE IF prevRefs[i].href \notin RefHrefs(currRefs)
       THEN scanPrev(prevRefs, currRefs, i + 1, Append(deletedEvents, prevRefs[i].href))
       ELSE scanPrev(prevRefs, currRefs, i + 1, deletedEvents)

\* syncChanges without the short-circuit on equal ctags.
syncChanges_NoShortCircuit(prevCtag, prevRefs, currCtag, currRefs) ==
  LET scan == scanCurr(prevRefs, currRefs, 1, <<>>, <<>>)
  IN [changed |-> TRUE, newCtag |-> currCtag,
      newEvents |-> scan.newEvents,
      updatedEvents |-> scan.updatedEvents,
      deletedEvents |-> scanPrev(prevRefs, currRefs, 1, <<>>)]

syncChanges(prevCtag, prevRefs, currCtag, currRefs) ==
  IF prevCtag = currCtag
  THEN [changed |-> FALSE, newCtag |-> currCtag, newEvents |-> <<>>,
        updatedEvents |-> <<>>, deletedEvents |-> <<>>]
  ELSE LET scan == scanCurr(prevRefs, currRefs, 1, <<>>, <<>>)
       IN [changed |-> TRUE, newCtag |-> currCtag,
           newEvents |-> scan.newEvents,
           updatedEvents |-> scan.updatedEvents,
           deletedEvents |-> scanPrev(prevRefs, currRefs, 1, <<>>)]

----------------------------------------------------------------------------
(* Inputs: multistatus documents of calendar collections *)

StatusOk == [isString |-> TRUE, words |-> <<"HTTP/1.1", "200", "OK">>]

StatusOkLower == [isString |-> TRUE, words |-> <<"http/1.1", "200", "ok">>]

StatusNotFound == [isString |-> TRUE, words |-> <<"HTTP/1.1", "404", "Not", "Found">>]

\* <status>200</status> decodes to the number 200; a missing status is undefined.
StatusNumber == [isString |-> FALSE, words |-> <<"200">>]

StatusMissing == [isString |-> FALSE, words |-> <<>>]

CompNames == {"VEVENT", "VTODO", "VAVAILABILITY", "X-CUSTOM", Undefined}

Comp(n) == [name |-> n]

CalProp(displayname, getctag, comps) ==
  JsObject([displayname |-> displayname, getctag |-> getctag,
            comp |-> JsChildren(comps)])

CalRecord(href, propstats) == [href |-> href, propstat |-> JsChildren(propstats)]

OkPropstat(comps) ==
  [status |-> StatusOk, prop |-> CalProp("Work", "ctag-1", comps)]

NotFoundPropstat == [status |-> StatusNotFound, prop |-> JsUndefined]

\* Records that vary the structure around one VEVENT-supporting collection.
CoreCalRecords ==
  { CalRecord("/cal/", <<>>),
    CalRecord("/cal/", <<NotFoundPropstat>>),
    CalRecord("/cal/", <<[status |-> StatusMissing, prop |-> CalProp("Work", "ctag-1", <<Comp("VEVENT")>>)]>>),
    CalRecord("/cal/", <<[status |-> StatusNumber, prop |-> CalProp("Work", "ctag-1", <<Comp("VEVENT")>>)]>>),
    CalRecord("/cal/", <<[status |-> StatusOk, prop |-> JsUndefined]>>),
    CalRecord("/cal/", <<[status |-> StatusOkLower, prop |-> CalProp(Undefined, Undefined, <<Comp("VEVENT")>>)]>>),
    CalRecord("/cal/", <<OkPropstat(<<Comp("VEVENT"), Comp("VTODO")>>)>>),
    CalRecord("/cal/", <<OkPropstat(<<Comp("VTODO")>>)>>),
    CalRecord("/cal/", <<NotFoundPropstat, OkPropstat(<<Comp("VEVENT")>>)>>),
    CalRecord("/cal/", <<NotFoundPropstat, NotFoundPropstat>>),
    CalRecord("::bad::", <<OkPropstat(<<Comp("VEVENT")>>)>>),
    CalRecord("https://other.example.org/c.ics", <<OkPropstat(<<Comp("VEVENT")>>)>>) }

\* Records that vary the supported-calendar-component-set.
CompCalRecords ==
  { CalRecord("/cal/", <<OkPropstat(comps)>>) :
      comps \in SeqsUpTo({Comp(n) : n \in CompNames}, MaxComps) }

Multistatus(records) == [multistatus |-> TRUE, response |-> JsChildren(records)]

NoRoot == [multistatus |-> FALSE, response |-> JsUndefined]

CalendarDocs ==
  {NoRoot}
    \cup {Multistatus(rs) : rs \in SeqsUpTo(CoreCalRecords, MaxRecords)}
    \cup {Multistatus(<<r>>) : r \in CompCalRecords}

BaseUrls == {Undefined, "https://dav.example.com/dav/", "not a url"}

----------------------------------------------------------------------------
(* Inputs: multistatus documents of events *)

Hour == 60 * 60

\* 1970-01-10T00:00:00Z in epoch seconds; its milliseconds fit 32 bits.
Jan10 == 9 * 24 * Hour

Valarm(action, trigger, attendees) ==
  [action |-> action, trigger |-> trigger, description |-> "Reminder",
   summary |-> Undefined, attendees |-> attendees]

AllAttendees == <<"mailto:a@example.com", "mailto:b@example.com",
                  "mailto:c@example.com", "mailto:d@example.com">>

Triggers == {"-PT15M", "", Undefined}

Valarms ==
  {Valarm(a, t, <<>>) : a \in {"DISPLAY", "AUDIO", "PROCEDURE"}, t \in Triggers}
    \cup {Valarm("EMAIL", t, SubSeq(AllAttendees, 1, n)) :
            t \in {"-PT15M", Undefined}, n \in 0..MaxAttendees}

\* A VEVENT: DTSTART and DTEND in epoch seconds (NoDate for a missing
\* property), whether DTSTART is a date without time of day, the tzid
\* parameters of both, the recurrence rule and the VALARMs.
Vevent(dtstart, isDate, dtend) ==
  [uid |-> "uid-1", summary |-> "Meeting", dtstart |-> dtstart, isDate |-> isDate,
   dtend |-> dtend, startTzid |-> <<>>, endTzid |-> <<>>,
   rrule |-> <<>>, valarms |-> <<>>]

DefaultVevent == Vevent(Jan10 + 9 * Hour, FALSE, Jan10 + 10 * Hour)

CoreVevents ==
  { DefaultVevent,
    Vevent(Jan10 + 9 * Hour, FALSE, NoDate),
    Vevent(Jan10, TRUE, NoDate),
    Vevent(Jan10, TRUE, Jan10 + 24 * Hour),
    Vevent(Jan10, TRUE, Jan10 + 48 * Hour),
    Vevent(NoDate, FALSE, NoDate),
    [DefaultVevent EXCEPT !.startTzid = <<"Europe/Berlin", "UTC">>,
                          !.endTzid = <<"Europe/Berlin">>],
    [DefaultVevent EXCEPT !.summary = "",
                          !.rrule = <<[freq |-> "DAILY", interval |-> 1, count |-> 3]>>],
    [DefaultVevent EXCEPT !.rrule = <<[freq |-> "SECONDLY", interval |-> 2, count |-> 0]>>],
    [DefaultVevent EXCEPT !.valarms =
       <<Valarm("EMAIL", "-PT15M", SubSeq(AllAttendees, 1, 2)),
         Valarm("DISPLAY", Undefined, <<>>)>>] }

AlarmVevents ==
  { [v EXCEPT !.valarms = al] :
      v \in {DefaultVevent, Vevent(Jan10, TRUE, Jan10 + 24 * Hour)},
      al \in SeqsUpTo(Valarms, MaxAlarms) }

CalendarText(lineEnd, wellFormed, vevents) ==
  [type |-> "string", lineEnd |-> lineEnd,
   ics |-> [wellFormed |-> wellFormed, vevents |-> vevents]]

\* A calendar-data property that is missing, an empty string or a number.
CalendarValue(type) ==
  [type |-> type, lineEnd |-> "crlf", ics |-> [wellFormed |-> FALSE, vevents |-> <<>>]]

EventProp(calendarData, getetag) ==
  JsObject([calendarData |-> calendarData, getetag |-> getetag])

EventPropstat(calendarData) ==
  [status |-> StatusOk, prop |-> EventProp(calendarData, "etag-1")]

EventRecord(href, propstats) == [href |-> href, propstat |-> JsChildren(propstats)]

VeventRecord(v) ==
  EventRecord("/cal/a.ics", <<EventPropstat(CalendarText("crlf", TRUE, <<v>>))>>)

CoreEventRecords ==
  { EventRecord("/cal/a.ics", <<>>),
    EventRecord("/cal/a.ics", <<NotFoundPropstat>>),
    EventRecord("/cal/a.ics", <<EventPropstat(CalendarValue("undefined"))>>),
    EventRecord("/cal/a.ics", <<EventPropstat(CalendarValue("empty"))>>),
    EventRecord("/cal/a.ics", <<EventPropstat(CalendarValue("number"))>>),
    EventRecord("/cal/a.ics", <<EventPropstat(CalendarText("crlf", FALSE, <<>>))>>),
    EventRecord("/cal/a.ics", <<EventPropstat(CalendarText("crlf", TRUE, <<>>))>>),
    EventRecord("/cal/b.ics",
                <<[status |-> StatusOk,
                   prop |-> EventProp(CalendarText("entity", TRUE, <<DefaultVevent>>),
                                      Undefined)]>>),
    EventRecord("/cal/b.ics",
                <<NotFoundPropstat,
                  EventPropstat(CalendarText("crlf", TRUE, <<DefaultVevent>>))>>),
    EventRecord("::bad::",
                <<EventPropstat(CalendarText("crlf", TRUE, <<DefaultVevent>>))>>),
    EventRecord("https://other.example.org/c.ics",
                <<EventPropstat(CalendarText("crlf", TRUE, <<DefaultVevent>>))>>) }
    \cup {VeventRecord(v) : v \in CoreVevents}

AlarmEventRecords == {VeventRecord(v) : v \in AlarmVevents}

EventDocs ==
  {NoRoot}
    \cup {Multistatus(rs) : rs \in SeqsUpTo(CoreEventRecords, MaxRecords)}
    \cup {Multistatus(<<r>>) : r \in AlarmEventRecords}

Backends == {"ical.js", "node-ical"}

----------------------------------------------------------------------------
(* Inputs: snapshots of a collection *)

Ctags == {"ctag-1", "ctag-2"}

RefHrefSet == {"/cal/a.ics", "/cal/b.ics", "/cal/c.ics"}

Etags == {"etag-1", "etag-2"}

EventRef == [href : RefHrefSet, etag : Etags]

\* Ref lists in which an href occurs once: href is the key of an event.
RefLists ==
  {refs \in SeqsUpTo(EventRef, MaxRefs) :
     \A i, j \in 1..Len(refs) : refs[i].href = refs[j].href => i = j}

Snapshots ==
  [prevCtag : Ctags, prevRefs : RefLists, currCtag : Ctags, currRefs : RefLists]

NoSnapshot ==
  [prevCtag |-> "", prevRefs |-> <<>>, currCtag |-> "", currRefs |-> <<>>]

NoChanges ==
  [changed |-> FALSE, newCtag |-> "", newEvents |-> <<>>,
   updatedEvents |-> <<>>, deletedEvents |-> <<>>]

----------------------------------------------------------------------------
(* The calls *)

Init ==
  /\ pc = "idle"
  /\ op = "none"
  /\ backend = "none"
  /\ baseUrl = Undefined
  /\ doc = NoRoot
  /\ snapshot = NoSnapshot
  /\ status = "none"
  /\ result = <<>>
  /\ slots = <<>>
  /\ changes = NoChanges

ParseCalendars ==
  /\ pc = "idle"
  /\ \E d \in CalendarDocs, base \in BaseUrls :
       /\ pc' = "done"
       /\ op' = "parseCalendars"
       /\ doc' = d
       /\ baseUrl' = base
       /\ LET r == parseCalendars(d, base)
          IN status' = r.status /\ result' = r.value /\ slots' = r.slots
  /\ UNCHANGED <<backend, snapshot, changes>>

ParseEvents ==
  /\ pc = "idle"
  /\ \E be \in Backends, d \in EventDocs, base \in BaseUrls :
       /\ pc' = "done"
       /\ op' = "parseEvents"
       /\ backend' = be
       /\ doc' = d
       /\ baseUrl' = base
       /\ LET r == parseEvents(be, d, base)
          IN status' = r.status /\ result' = r.value /\ slots' = r.slots
  /\ UNCHANGED <<snapshot, changes>>

SyncChanges ==
  /\ pc = "idle"
  /\ \E s \in Snapshots :
       /\ pc' = "done"
       /\ op' = "syncChanges"
       /\ snapshot' = s
       /\ status' = "returned"
       /\ changes' = syncChanges(s.prevCtag, s.prevRefs, s.currCtag, s.currRefs)
  /\ UNCHANGED <<backend, baseUrl, doc, result, slots>>

Next ==
  \/ ParseCalendars
  \/ ParseEvents
  \/ SyncChanges

Spec == Init /\ [][Next]_vars

----------------------------------------------------------------------------
(* Vocabulary of the properties *)

DoneParseEvents == pc = "done" /\ op = "parseEvents"

DoneParseCalendars == pc = "done" /\ op = "parseCalendars"

DoneSyncChanges == pc = "done" /\ op = "syncChanges"

\* The top-level structure decodes: a root multistatus with response records.
Decodes == doc.multistatus /\ doc.response.kind # "undefined"

Records == doc.response.items

RECURSIVE Flatten(_)
Flatten(ss) == IF ss = <<>> THEN <<>> ELSE Head(ss) \o Flatten(Tail(ss))

\* What a response record yields when it is the only record of the input.
OwnEvents(be, r, base) ==
  LET alone == parseEvents(be, Multistatus(<<r>>), base)
  IN IF alone.status = "returned" THEN alone.value ELSE <<>>

\* A record fails when calendar-data is present but is no text, is no
\* iCalendar document, or the extraction of the fields of its VEVENT throws.
RecordFails(be, r, base) ==
  /\ r.propstat.kind = "object"
  /\ r.propstat.items[1].prop.kind = "object"
  /\ LET data == r.propstat.items[1].prop.items[1].calendarData
     IN /\ data.type \notin {"undefined", "empty"}
        /\ \/ data.type # "string"
           \/ ~data.ics.wellFormed
           \/ /\ data.ics.vevents # <<>>
              /\ \/ resolveHref(r.href, base).threw
                 \/ Head(data.ics.vevents).dtstart = NoDate

\* The VEVENT of a record that carries one in a single propstat.
HasVevent(r) ==
  /\ r.propstat.kind = "object"
  /\ r.propstat.items[1].prop.kind = "object"
  /\ r.propstat.items[1].prop.items[1].calendarData.type = "string"
  /\ r.propstat.items[1].prop.items[1].calendarData.ics.wellFormed
  /\ r.propstat.items[1].prop.items[1].calendarData.ics.vevents # <<>>

VeventOf(r) == Head(r.propstat.items[1].prop.items[1].calendarData.ics.vevents)

\* The raw end instant, in milliseconds: the end the back-end computed.
RawEnd(be, v) ==
  IF be = "ical.js" THEN icalEndUnixTime(v) * 1000 ELSE nodeIcalEnd(v)

----------------------------------------------------------------------------
(* C1 *)

\* C1: per-record failure isolation in parseEvents. For every input whose
\* top-level structure decodes, the call returns (it does not raise), a record
\* whose processing fails contributes no Event, and every record contributes
\* exactly what it yields on its own.
C1_PerRecordFailureIsolation ==
  (DoneParseEvents /\ Decodes) =>
    /\ status = "returned"
    /\ Len(slots) = Len(Records)
    /\ result = Flatten(slots)
    /\ \A i \in 1..Len(Records) :
         /\ RecordFails(backend, Records[i], baseUrl) => slots[i] = <<>>
         /\ slots[i] = OwnEvents(backend, Records[i], baseUrl)

----------------------------------------------------------------------------
(* C2 *)

\* C2: whole-day end adjustment. For every Event returned by parseEvents, in
\* either back-end, end is the raw end instant minus one day when wholeDay is
\* true and the raw end instant when wholeDay is false.
C2_WholeDayEndAdjusted ==
  (DoneParseEvents /\ status = "returned") =>
    \A i \in 1..Len(slots) :
      \A k \in 1..Len(slots[i]) :
        LET e == slots[i][k]
            raw == RawEnd(backend, VeventOf(Records[i]))
        IN e.end = IF e.wholeDay THEN raw - Day ELSE raw

----------------------------------------------------------------------------
(* C3 *)

\* C3 as stated: structural failure is fatal for both entry points. Without a
\* root multistatus element, or without a response element in it, both
\* parseCalendars and parseEvents raise.
C3_StructuralFailureFatal ==
  ((DoneParseCalendars \/ DoneParseEvents) /\ ~Decodes) => status = "raised"

\* C3 amended: without a root multistatus element both entry points raise;
\* without a response element parseCalendars raises and parseEvents returns
\* the empty sequence.
C3_StructuralFailure ==
  /\ ((DoneParseCalendars \/ DoneParseEvents) /\ ~doc.multistatus)
       => status = "raised"
  /\ (DoneParseCalendars /\ doc.multistatus /\ doc.response.kind = "undefined")
       => status = "raised"
  /\ (DoneParseEvents /\ doc.multistatus /\ doc.response.kind = "undefined")
       => (status = "returned" /\ result = <<>>)

\* A call of parseEvents on a multistatus without response has returned.
C3_Witness ==
  /\ DoneParseEvents
  /\ doc.multistatus
  /\ doc.response.kind = "undefined"
  /\ status = "returned"

----------------------------------------------------------------------------
(* C4 *)

\* The record has a propstat whose supported-calendar-component-set names VEVENT.
DeclaresVEvent(res) ==
  \E k \in 1..Len(res.propstat.items) :
    LET prop == res.propstat.items[k].prop
    IN /\ prop.kind = "object"
       /\ \E n \in 1..Len(prop.items[1].comp.items) :
            prop.items[1].comp.items[n].name = "VEVENT"

\* C4: VEVENT-only output of parseCalendars. Every Calendar of the output has
\* VEVENT in supportedComponents, supportedComponents holds only names of the
\* SupportedComponent enum, and a record whose component set lacks VEVENT, is
\* empty or is absent yields no Calendar.
C4_VEventOnlyKnownComponents ==
  (DoneParseCalendars /\ status = "returned") =>
    /\ result = Flatten(slots)
    /\ \A i \in 1..Len(slots) :
         /\ \A k \in 1..Len(slots[i]) :
              /\ "VEVENT" \in SeqToSet(slots[i][k].supportedComponents)
              /\ SeqToSet(slots[i][k].supportedComponents) \subseteq SupportedComponent
         /\ ~DeclaresVEvent(Records[i]) => slots[i] = <<>>

----------------------------------------------------------------------------
(* C7 *)

\* No propstat of the record has a string status containing "200 ok",
\* whatever the case: the record has no propstat at all, only propstats of
\* another status, or propstats without a string status.
NoOkPropstat(res) ==
  \A k \in 1..Len(res.propstat.items) : ~IsOkPropstat(res.propstat.items[k])

\* C7: parseCalendars silently skips a record without a "200 ok" propstat.
\* The call does not raise at such a record, the record yields no Calendar and
\* the records after it are processed.
C7_NoOkPropstatSkipped ==
  (DoneParseCalendars /\ Decodes) =>
    \A i \in 1..Len(Records) :
      NoOkPropstat(Records[i]) =>
        /\ ~(status = "raised" /\ Len(slots) = i - 1)
        /\ i <= Len(slots) => slots[i] = <<>>

----------------------------------------------------------------------------
(* C5 *)

AlarmActions == {"DISPLAY", "EMAIL", "AUDIO"}

\* The record with the VALARMs that have no trigger taken out of its VEVENT.
WithoutTriggerless(r) ==
  [r EXCEPT !.propstat.items[1].prop.items[1].calendarData.ics.vevents[1].valarms =
              SelectSeq(@, LAMBDA a : Truthy(a.trigger))]

HasTriggerless(r) ==
  \E n \in 1..Len(VeventOf(r).valarms) : ~Truthy(VeventOf(r).valarms[n].trigger)

\* C5: alarms require a trigger. Every Alarm of an Event has an action among
\* DISPLAY, EMAIL and AUDIO and a present, non-empty trigger; a VALARM without
\* trigger does not make the call raise, and the record yields exactly what
\* it yields without that VALARM: the Event and its other alarms are kept.
C5_AlarmsRequireTrigger ==
  DoneParseEvents =>
    \A i \in 1..Len(Records) :
      HasVevent(Records[i]) =>
        /\ ~(status = "raised" /\ Len(slots) = i - 1)
        /\ i <= Len(slots) =>
             /\ \A k \in 1..Len(slots[i]) :
                  \A n \in 1..Len(slots[i][k].alarms) :
                    /\ slots[i][k].alarms[n].action \in AlarmActions
                    /\ slots[i][k].alarms[n].trigger \notin {Undefined, ""}
             /\ slots[i] = OwnEvents(backend, WithoutTriggerless(Records[i]), baseUrl)

\* An Event was returned for a VEVENT with a VALARM without trigger, and
\* another alarm of that VEVENT is in it.
C5_Witness ==
  /\ DoneParseEvents
  /\ status = "returned"
  /\ \E i \in 1..Len(slots) :
       /\ HasVevent(Records[i])
       /\ HasTriggerless(Records[i])
       /\ Len(slots[i]) = 1
       /\ Len(slots[i][1].alarms) = 1
       /\ Len(VeventOf(Records[i]).valarms) = 2

----------------------------------------------------------------------------
(* C6 *)

EmailValarms(v) ==
  SelectSeq(v.valarms, LAMBDA a : a.action = "EMAIL" /\ Truthy(a.trigger))

EmailAlarms(e) == SelectSeq(e.alarms, LAMBDA a : a.action = "EMAIL")

\* C6: EMAIL alarm attendees are complete. In either back-end, the Alarm built
\* from a VALARM with action EMAIL and a trigger holds every ATTENDEE value of
\* that VALARM, in order.
C6_EmailAttendeesComplete ==
  (DoneParseEvents /\ status = "returned") =>
    \A i \in 1..Len(slots) :
      \A k \in 1..Len(slots[i]) :
        LET valarms == EmailValarms(VeventOf(Records[i]))
            alarms == EmailAlarms(slots[i][k])
        IN /\ Len(alarms) = Len(valarms)
           /\ \A n \in 1..Len(alarms) : alarms[n].attendees = valarms[n].attendees

----------------------------------------------------------------------------
(* C9 *)

CarriesCalendarData(p) ==
  p.prop.kind = "object" /\ p.prop.items[1].calendarData.type = "string"

\* The record with its propstat sequence replaced by the one propstat of it
\* that carries calendar-data, as a bare singleton.
AsSingleton(r) ==
  [r EXCEPT !.propstat =
     JsObject(r.propstat.items[CHOOSE k \in 1..Len(r.propstat.items) :
                                 CarriesCalendarData(r.propstat.items[k])])]

\* C9: propstat cardinality is normalised in parseEvents. A record whose
\* propstat arrives as a sequence, one element of which carries calendar-data,
\* yields what it yields with that propstat as a bare singleton.
C9_PropstatCardinalityNormalised ==
  (DoneParseEvents /\ status = "returned") =>
    \A i \in 1..Len(slots) :
      (/\ Records[i].propstat.kind = "array"
       /\ \E k \in 1..Len(Records[i].propstat.items) :
            CarriesCalendarData(Records[i].propstat.items[k]))
        => slots[i] = OwnEvents(backend, AsSingleton(Records[i]), baseUrl)

----------------------------------------------------------------------------
(* C10 *)

\* C10: a missing end defaults to the start. A VEVENT with a start and no end,
\* whole-day or timed, yields an Event whose end equals its start and whose
\* endTzid is undefined.
C10_MissingEndDefaultsToStart ==
  (DoneParseEvents /\ status = "returned") =>
    \A i \in 1..Len(slots) :
      (/\ HasVevent(Records[i])
       /\ VeventOf(Records[i]).dtstart # NoDate
       /\ VeventOf(Records[i]).dtend = NoDate
       /\ ~resolveHref(Records[i].href, baseUrl).threw)
        => /\ Len(slots[i]) = 1
           /\ slots[i][1].end = slots[i][1].start
           /\ slots[i][1].endTzid = Undefined

----------------------------------------------------------------------------
(* C8 *)

NoDuplicates(s) == \A i, j \in 1..Len(s) : s[i] = s[j] => i = j

\* C8: classification by the change detector. With differing ctags the result
\* is changed with newCtag the current ctag, newEvents is exactly the hrefs of
\* currRefs absent from prevRefs, updatedEvents exactly the hrefs in both with
\* differing etag, deletedEvents exactly the hrefs of prevRefs absent from
\* currRefs, and an href in both with equal etag is in none of the lists;
\* with equal ctags the result is unchanged with three empty lists.
C8_ChangeClassification ==
  DoneSyncChanges =>
    LET prev == RefHrefs(snapshot.prevRefs)
        curr == RefHrefs(snapshot.currRefs)
        updated == {h \in prev \cap curr :
                      IndexedEtag(snapshot.prevRefs, h) # IndexedEtag(snapshot.currRefs, h)}
    IN IF snapshot.prevCtag # snapshot.currCtag
       THEN /\ changes.changed
            /\ changes.newCtag = snapshot.currCtag
            /\ SeqToSet(changes.newEvents) = curr \ prev
            /\ SeqToSet(changes.updatedEvents) = updated
            /\ SeqToSet(changes.deletedEvents) = prev \ curr
            /\ NoDuplicates(changes.newEvents)
            /\ NoDuplicates(changes.updatedEvents)
            /\ NoDuplicates(changes.deletedEvents)
            /\ \A h \in (prev \cap curr) \ updated :
                 h \notin SeqToSet(changes.newEvents)
                          \cup SeqToSet(changes.updatedEvents)
                          \cup SeqToSet(changes.deletedEvents)
       ELSE /\ ~changes.changed
            /\ changes.newEvents = <<>>
            /\ changes.updatedEvents = <<>>
            /\ changes.deletedEvents = <<>>

\* A diff with one new, one updated and one deleted event.
C8_Witness ==
  /\ DoneSyncChanges
  /\ snapshot.prevCtag # snapshot.currCtag
  /\ Len(changes.newEvents) = 1
  /\ Len(changes.updatedEvents) = 1
  /\ Len(changes.deletedEvents) = 1

====
